---------------------------- MODULE Spec2Model ----------------------------
(***************************************************************************)
(* A model of src/main.py, the interactive OZON API console: the session   *)
(* loop of main(), the menu of choose_command(), run_command() and the     *)
(* schema-driven payload builder (prompt_for_payload, prompt_for_object,   *)
(* prompt_for_value, convert_primitive).                                   *)
(*                                                                         *)
(* The program is single-threaded and blocks only in input() and in the    *)
(* two network calls.  A state of the model is the program stopped at one  *)
(* of those calls or at a `return` of a builder function; `stack` holds    *)
(* the call frames of the builder with their local variables.              *)
(*                                                                         *)
(* Python values are tagged records (PyInt, PyFloat, PyStr, PyBool,       *)
(* PyList, PyDict, PyNone); text is a TLA+ string and the conversions of   *)
(* text (str.strip, str.lower, int, float, json.loads) are computed        *)
(* character by character.                                                 *)
(***************************************************************************)
EXTENDS Integers, Sequences, FiniteSets, TLC

\* Bounds of the model.
MaxLines == 4    \* lines one payload build may read
MaxBuilds == 2   \* commands one session may run

---------------------------------------------------------------------------
\* Python values

PyNone == [t |-> "none"]
PyInt(n) == [t |-> "int", v |-> n]
\* a float with a finite decimal expansion: num / 10^scale, scale minimal
PyFloat(num, scale) == [t |-> "float", num |-> num, scale |-> scale]
PyStr(s) == [t |-> "str", v |-> s]
PyBool(b) == [t |-> "bool", v |-> b]
PyList(seq) == [t |-> "list", v |-> seq]
PyDict(f) == [t |-> "dict", v |-> f]
EmptyMap == [k \in {} |-> PyNone]
Range(seq) == {seq[i] : i \in 1..Len(seq)}
Min(S) == CHOOSE m \in S : \A n \in S : m <= n
Max(S) == CHOOSE m \in S : \A n \in S : n <= m

---------------------------------------------------------------------------
\* Text

\* the i-th character of s, "" outside it
Char(s, i) == IF i \in 1..Len(s) THEN SubSeq(s, i, i) ELSE ""
Whitespace == {" ", "\t", "\n", "\r"}
Digits == "0123456789"
IsDigit(c) == \E i \in 1..10 : Char(Digits, i) = c
DigitVal(c) == (CHOOSE i \in 1..10 : Char(Digits, i) = c) - 1
UpperCase == "ABCDEFGHIJKLMNOPQRSTUVWXYZ"
LowerCase == "abcdefghijklmnopqrstuvwxyz"

\* str.strip(): leading and trailing whitespace removed
strip(s) ==
    LET keep == {i \in 1..Len(s) : Char(s, i) \notin Whitespace}
    IN  IF keep = {} THEN "" ELSE SubSeq(s, Min(keep), Max(keep))

LowerChar(c) ==
    IF \E i \in 1..26 : Char(UpperCase, i) = c
    THEN Char(LowerCase, CHOOSE i \in 1..26 : Char(UpperCase, i) = c)
    ELSE c

\* str.lower()
RECURSIVE lower(_)
lower(s) == IF s = "" THEN "" ELSE LowerChar(Head(s)) \o lower(Tail(s))

\* the value of a string of decimal digits
RECURSIVE DigitsValue(_)
DigitsValue(s) ==
    IF s = "" THEN 0
    ELSE 10 * DigitsValue(SubSeq(s, 1, Len(s) - 1)) + DigitVal(Char(s, Len(s)))

\* s without its "_" characters
RECURSIVE DropUnderscores(_)
DropUnderscores(s) ==
    IF s = "" THEN ""
    ELSE (IF Head(s) = "_" THEN "" ELSE Head(s)) \o DropUnderscores(Tail(s))

\* digits, with single underscores allowed between two digits
DigitGroup(s) ==
    /\ s # ""
    /\ \A i \in 1..Len(s) :
          \/ IsDigit(Char(s, i))
          \/ /\ Char(s, i) = "_"
             /\ i > 1 /\ i < Len(s)
             /\ IsDigit(Char(s, i - 1)) /\ IsDigit(Char(s, i + 1))

Raised(exc) == [ok |-> FALSE, exc |-> exc]
Returned(v) == [ok |-> TRUE, v |-> v]

\* int(raw): optional sign, decimal digits; ValueError otherwise
int(raw) ==
    LET s == strip(raw)
        signed == s # "" /\ Head(s) \in {"+", "-"}
        body == IF signed THEN Tail(s) ELSE s
        n == DigitsValue(DropUnderscores(body))
    IN  IF DigitGroup(body)
        THEN Returned(PyInt(IF signed /\ Head(s) = "-" THEN 0 - n ELSE n))
        ELSE Raised("ValueError")

\* num / 10^scale with the trailing zeros of the fraction removed
RECURSIVE Normal(_, _)
Normal(num, scale) ==
    IF scale > 0 /\ num % 10 = 0 THEN Normal(num \div 10, scale - 1)
    ELSE PyFloat(num, scale)

\* float(raw) on decimal literals: [sign] digits [. [digits]] or [sign] . digits.
\* Exponents and the words inf/nan are not text the model's lines contain.
float(raw) ==
    LET s == strip(raw)
        signed == s # "" /\ Head(s) \in {"+", "-"}
        body == IF signed THEN Tail(s) ELSE s
        dots == {i \in 1..Len(body) : Char(body, i) = "."}
        dot == IF dots = {} THEN Len(body) + 1 ELSE Min(dots)
        whole == SubSeq(body, 1, dot - 1)
        frac == SubSeq(body, dot + 1, Len(body))
        wellFormed == /\ Cardinality(dots) <= 1
                      /\ whole = "" \/ DigitGroup(whole)
                      /\ frac = "" \/ DigitGroup(frac)
                      /\ whole # "" \/ frac # ""
        fdigits == DropUnderscores(frac)
        n == DigitsValue(DropUnderscores(whole) \o fdigits)
        f == Normal(n, Len(fdigits))
    IN  IF wellFormed
        THEN Returned(IF signed /\ Head(s) = "-"
                      THEN PyFloat(0 - f.num, f.scale) ELSE f)
        ELSE Raised("ValueError")

---------------------------------------------------------------------------
\* json.loads on the JSON the model's lines can spell: objects, arrays,
\* strings without escapes, numbers without exponents, true, false, null.
\* A parse yields [ok, v, next]: the value and the index after it.

NoParse == [ok |-> FALSE]
Parsed(v, next) == [ok |-> TRUE, v |-> v, next |-> next]

SkipWs(s, i) ==
    LET rest == {j \in i..Len(s) : Char(s, j) \notin Whitespace}
    IN  IF rest = {} THEN Len(s) + 1 ELSE Min(rest)

\* the index after the run of digits that starts at i
DigitsEnd(s, i) ==
    LET stop == {j \in i..Len(s) : ~IsDigit(Char(s, j))}
    IN  IF stop = {} THEN Len(s) + 1 ELSE Min(stop)

\* number: -? (0 | [1-9][0-9]*) (. [0-9]+)?
ParseNumber(s, i) ==
    LET neg == Char(s, i) = "-"
        a == IF neg THEN i + 1 ELSE i
        b == DigitsEnd(s, a)
        whole == SubSeq(s, a, b - 1)
        hasFrac == Char(s, b) = "."
        c == IF hasFrac THEN DigitsEnd(s, b + 1) ELSE b
        frac == SubSeq(s, b + 1, c - 1)
        sign == IF neg THEN 0 - 1 ELSE 1
        f == Normal(DigitsValue(whole \o frac), Len(frac))
    IN  IF whole = "" \/ (Len(whole) > 1 /\ Head(whole) = "0") THEN NoParse
        ELSE IF ~hasFrac THEN Parsed(PyInt(sign * DigitsValue(whole)), b)
        ELSE IF frac = "" THEN NoParse
        ELSE Parsed(PyFloat(sign * f.num, f.scale), c)

\* string: " characters ", no escapes
ParseString(s, i) ==
    LET close == {j \in (i + 1)..Len(s) : Char(s, j) = "\""}
        bad == {j \in (i + 1)..Len(s) : Char(s, j) = "\\"}
    IN  IF Char(s, i) # "\"" \/ close = {} \/ bad # {} THEN NoParse
        ELSE Parsed(PyStr(SubSeq(s, i + 1, Min(close) - 1)), Min(close) + 1)

ParseWord(s, i, word, v) ==
    IF i + Len(word) - 1 <= Len(s) /\ SubSeq(s, i, i + Len(word) - 1) = word
    THEN Parsed(v, i + Len(word)) ELSE NoParse

RECURSIVE ParseValue(_, _), ParseMembers(_, _, _), ParseElements(_, _, _)
ParseValue(s, i) ==
    LET c == Char(s, i)
        j == SkipWs(s, i + 1)
    IN  CASE c = "{" -> IF Char(s, j) = "}" THEN Parsed(PyDict(EmptyMap), j + 1)
                        ELSE ParseMembers(s, j, EmptyMap)
          [] c = "[" -> IF Char(s, j) = "]" THEN Parsed(PyList(<<>>), j + 1)
                        ELSE ParseElements(s, j, <<>>)
          [] c = "\"" -> ParseString(s, i)
          [] c = "t" -> ParseWord(s, i, "true", PyBool(TRUE))
          [] c = "f" -> ParseWord(s, i, "false", PyBool(FALSE))
          [] c = "n" -> ParseWord(s, i, "null", PyNone)
          [] c = "-" \/ IsDigit(c) -> ParseNumber(s, i)
          [] OTHER -> NoParse

\* "key": value members from index i, up to the closing brace; a repeated key
\* keeps its last value
ParseMembers(s, i, acc) ==
    LET key == ParseString(s, i)
        colon == SkipWs(s, key.next)
        val == ParseValue(s, SkipWs(s, colon + 1))
        after == SkipWs(s, val.next)
        got == (key.v.v :> val.v) @@ acc
    IN  IF ~key.ok THEN NoParse
        ELSE IF Char(s, colon) # ":" THEN NoParse
        ELSE IF ~val.ok THEN NoParse
        ELSE IF Char(s, after) = "}" THEN Parsed(PyDict(got), after + 1)
        ELSE IF Char(s, after) = "," THEN ParseMembers(s, SkipWs(s, after + 1), got)
        ELSE NoParse

ParseElements(s, i, acc) ==
    LET val == ParseValue(s, i)
        after == SkipWs(s, val.next)
        got == Append(acc, val.v)
    IN  IF ~val.ok THEN NoParse
        ELSE IF Char(s, after) = "]" THEN Parsed(PyList(got), after + 1)
        ELSE IF Char(s, after) = "," THEN ParseElements(s, SkipWs(s, after + 1), got)
        ELSE NoParse

\* json.loads(raw): one value with whitespace around it, JSONDecodeError otherwise
json_loads(raw) ==
    LET val == ParseValue(raw, SkipWs(raw, 1))
    IN  IF val.ok /\ SkipWs(raw, val.next) = Len(raw) + 1
        THEN Returned(val.v) ELSE Raised("JSONDecodeError")

---------------------------------------------------------------------------
\* Schemas and the catalog.  A schema node is a record with the keys the
\* catalog gives it; `properties` is the ordered dict as a sequence of
\* [name, schema] items.

Has(d, k) == k \in DOMAIN d
\* dict.get(k, default)
Get(d, k, default) == IF Has(d, k) THEN d[k] ELSE default
Item(name, schema) == [name |-> name, schema |-> schema]
StringArray == [type |-> "array", items |-> [type |-> "string"]]

AnalyticsStocksSchema ==
    [type |-> "object",
     properties |-> <<
        Item("cluster_ids", StringArray),
        Item("item_tags",
             [type |-> "array",
              items |-> [type |-> "string",
                         enum |-> <<"ITEM_ATTRIBUTE_NONE",
                                    "ITEM_ATTRIBUTE_BEST_SELLER",
                                    "ITEM_ATTRIBUTE_EXCLUSIVE">>]]),
        Item("skus", StringArray),
        Item("turnover_grades",
             [type |-> "array",
              items |-> [type |-> "string",
                         enum |-> <<"TURNOVER_GRADE_NONE",
                                    "TURNOVER_GRADE_GREEN",
                                    "TURNOVER_GRADE_YELLOW",
                                    "TURNOVER_GRADE_RED">>]]),
        Item("warehouse_ids", StringArray) >>,
     required |-> <<>>]

SupplyOrderGetSchema ==
    [type |-> "object",
     properties |-> <<
        Item("order_ids", [type |-> "array", items |-> [type |-> "integer"]]) >>,
     required |-> <<"order_ids">>]

SupplyOrderListSchema ==
    [type |-> "object",
     properties |-> <<
        Item("limit", [type |-> "integer", default |-> PyInt(100)]),
        Item("offset", [type |-> "integer", default |-> PyInt(0)]),
        Item("status", [type |-> "string"]) >>,
     required |-> <<>>]

\* COMMANDS; the summaries are the catalog's Russian texts in English
COMMANDS ==
    ("v1/analytics/stocks" :>
        [method |-> "post", summary |-> "Get stock analytics",
         schema |-> AnalyticsStocksSchema])
    @@ ("v3/supply-order/get" :>
        [method |-> "post", summary |-> "Get supply order details",
         schema |-> SupplyOrderGetSchema])
    @@ ("v3/supply-order/list" :>
        [method |-> "post", summary |-> "List supply orders",
         schema |-> SupplyOrderListSchema])

\* the printable ASCII characters in code order (all but the grave accent),
\* for the order of str
Ascii ==
    " !\"#$%&'()*+,-./0123456789:;<=>?@ABCDEFGHIJKLMNOPQRSTUVWXYZ[\\]^_abcdefghijklmnopqrstuvwxyz{|}~"
Ord(c) == CHOOSE i \in 1..Len(Ascii) : Char(Ascii, i) = c

\* a < b for str
StrLess(a, b) ==
    LET differ == {i \in 1..Min({Len(a), Len(b)}) : Char(a, i) # Char(b, i)}
        k == Min(differ)
    IN  IF differ = {} THEN Len(a) < Len(b)
        ELSE Ord(Char(a, k)) < Ord(Char(b, k))

\* sorted(commands.items()), as the sequence of the names
RECURSIVE sorted(_)
sorted(names) ==
    IF names = {} THEN <<>>
    ELSE LET first == CHOOSE n \in names : \A m \in names \ {n} : StrLess(n, m)
         IN  <<first>> \o sorted(names \ {first})

---------------------------------------------------------------------------
\* convert_primitive

\* the answers prompt_for_object takes for yes: y, yes and the Russian
\* "d", "da" (Cyrillic U+0434, U+0430, written here as escapes)
Affirmative == {"y", "yes", "\\u0434", "\\u0434\\u0430"}
\* the texts convert_primitive takes for true
Truthy == {"true", "1", "yes", "y", "\\u0434\\u0430"}

\* what convert_primitive does before it needs more input
NeedsInput == [ok |-> FALSE, exc |-> "input"]

\* Faulty variant of convert_primitive: the enum is looked at before the
\* default, so empty input for an enum leaf always asks again.
convert_primitive_EnumFirst(raw, schema) ==
    IF Len(Get(schema, "enum", <<>>)) > 0
    THEN IF raw = "" THEN [ok |-> FALSE, exc |-> "input"] ELSE Returned(PyStr(raw))
    ELSE IF raw = "" /\ Get(schema, "default", PyNone) # PyNone
    THEN Returned(schema["default"])
    ELSE LET schema_type == Get(schema, "type", "None")
         IN  CASE schema_type = "integer" -> int(raw)
               [] schema_type = "number" -> float(raw)
               [] schema_type = "boolean" -> Returned(PyBool(lower(raw) \in Truthy))
               [] OTHER -> Returned(PyStr(raw))

\* Faulty variant of convert_primitive: an enum value is converted to the
\* declared type instead of being returned as typed.
convert_primitive_EnumTyped(raw, schema) ==
    LET schema_type == Get(schema, "type", "None")
    IN  IF raw = "" /\ Get(schema, "default", PyNone) # PyNone
        THEN Returned(schema["default"])
        ELSE IF Len(Get(schema, "enum", <<>>)) > 0 /\ raw = ""
        THEN [ok |-> FALSE, exc |-> "input"]
        ELSE CASE schema_type = "integer" -> int(raw)
               [] schema_type = "number" -> float(raw)
               [] schema_type = "boolean" -> Returned(PyBool(lower(raw) \in Truthy))
               [] OTHER -> Returned(PyStr(raw))

\* convert_primitive(raw, schema) up to its return, its exception or its
\* input() of line 97
convert_primitive(raw, schema) ==
    IF raw = "" /\ Get(schema, "default", PyNone) # PyNone
    THEN Returned(schema["default"])
    ELSE IF Len(Get(schema, "enum", <<>>)) > 0
    THEN IF raw = "" THEN NeedsInput ELSE Returned(PyStr(raw))
    ELSE LET schema_type == Get(schema, "type", "None")
         IN  CASE schema_type = "integer" -> int(raw)
               [] schema_type = "number" -> float(raw)
               [] schema_type = "boolean" -> Returned(PyBool(lower(raw) \in Truthy))
               [] OTHER -> Returned(PyStr(raw))

---------------------------------------------------------------------------
\* The state

VARIABLES
    pc,          \* where main() is: "client_id", "api_key", "verify", "menu",
                 \* "build" (in prompt_for_payload), "request" (about to
                 \* send), "waiting" (in requests.request), "done" (left
                 \* the loop), "exit1" (sys.exit(1)), "crashed" (an
                 \* exception left main)
    client_id,   \* main's client_id
    api_key,     \* main's api_key
    commands,    \* the catalog main runs on
    selected,    \* the command run_command was called with, "" if none
    stack,       \* the call frames of the payload builder, innermost last
    transcript,  \* the lines the current payload build has read
    payload,     \* run_command's payload once prompt_for_payload returned
    wire,        \* the request run_command waits on the answer of, or None
    requests,    \* how many requests run_command has sent in the session
    builds,      \* how many commands the session has run
    out,         \* the last message printed
    error        \* the exception that left main, "" if none

vars == <<pc, client_id, api_key, commands, selected, stack, transcript,
          payload, wire, requests, builds, out, error>>

BASE_URL == "https://api-seller.ozon.ru/"

\* what the operator may type at a prompt of the payload builder
Lines == {"", " ", "Y", "10", " 20"}
\* ... and also at a prompt for a number
NumberLines == {"3.14"}
\* ... and also at the prompt for a raw JSON body
JsonLines == {"{\"a\": 1}"}
\* ... at the two credential prompts
CredentialLines == {"", " ", " id "}
\* ... at the menu
MenuLines == {"", "1", " 2", "3", "4", "x"}

---------------------------------------------------------------------------
\* The call frames of the builder.  `at` is the line the frame stands at:
\*   prompt_for_payload  "json" (input, 126/131), "call" (130), "return"
\*   prompt_for_object   "loop" (113), "choice" (input, 117), "call" (120),
\*                       "return" (121)
\*   prompt_for_value    "call" (77), "element" (input, 83), "append" (86),
\*                       "value" (input, 88), "convert" (88), "return"
\*   convert_primitive   "reprompt" (input, 97), "return"
\* `start` is how many lines the build had read when the frame was called.

Frame(fn, name, schema, raw, start) ==
    [fn |-> fn, at |-> "enter", name |-> name, schema |-> schema, idx |-> 1,
     result |-> EmptyMap, values |-> <<>>, raw |-> raw, start |-> start,
     ret |-> PyNone]

IsNone(x) == Has(x, "t") /\ x.t = "none"
\* `not schema`
Falsy(schema) == IsNone(schema) \/ DOMAIN schema = {}
\* prop_schema.get("description") or prop
Title(prop, prop_schema) ==
    IF Get(prop_schema, "description", "") # ""
    THEN prop_schema["description"] ELSE prop
Running(stk) == [stack |-> stk, exc |-> ""]
Unwound(exc) == [stack |-> <<>>, exc |-> exc]

\* the frame prompt_for_object starts with (line 110: result = {})
ObjectFrame(schema, start) == Frame("prompt_for_object", "", schema, "", start)
\* the frame of prompt_for_value(name, schema) (line 80: values = [])
ValueFrame(name, schema, start) == Frame("prompt_for_value", name, schema, "", start)

\* Run the builder from its innermost frame to the next input() or return,
\* or to the exception that unwinds it.  pos is the number of lines read.
RECURSIVE Run(_, _)
Run(stk, pos) ==
    LET n == Len(stk)
        f == stk[n]
        Set(g) == [stk EXCEPT ![n] = g]
        Call(g, callee) == Run(Append(Set(g), callee), pos)
        schema_type == Get(f.schema, "type", "None")
    IN  CASE f.fn = "prompt_for_payload" /\ f.at = "enter" ->
               IF Falsy(f.schema) THEN Running(Set([f EXCEPT !.at = "json"]))
               ELSE IF schema_type = "object"
               THEN Call([f EXCEPT !.at = "call"], ObjectFrame(f.schema, pos))
               ELSE Running(Set([f EXCEPT !.at = "json"]))
          [] f.fn = "prompt_for_object" /\ f.at \in {"enter", "loop"} ->
               LET properties == Get(f.schema, "properties", <<>>)
                   required == Range(Get(f.schema, "required", <<>>))
               IN  IF f.idx > Len(properties)
                   THEN Running(Set([f EXCEPT !.at = "return",
                                              !.ret = PyDict(f.result)]))
                   ELSE LET prop == properties[f.idx].name
                            prop_schema == properties[f.idx].schema
                            is_required == prop \in required
                        IN  IF ~is_required
                            THEN Running(Set([f EXCEPT !.at = "choice"]))
                            ELSE Call([f EXCEPT !.at = "call"],
                                      ValueFrame(Title(prop, prop_schema),
                                                 prop_schema, pos))
          [] f.fn = "prompt_for_value" /\ f.at = "enter" ->
               IF schema_type = "object"
               THEN Call([f EXCEPT !.at = "call"], ObjectFrame(f.schema, pos))
               ELSE IF schema_type = "array"
               THEN Running(Set([f EXCEPT !.at = "element"]))
               ELSE Running(Set([f EXCEPT !.at = "value"]))
          [] f.fn = "convert_primitive" /\ f.at = "enter" ->
               LET r == convert_primitive(f.raw, f.schema)
               IN  IF r.ok
                   THEN Running(Set([f EXCEPT !.at = "return", !.ret = r.v]))
                   ELSE IF r = NeedsInput
                   THEN Running(Set([f EXCEPT !.at = "reprompt"]))
                   ELSE Unwound(r.exc)
          [] OTHER -> Running(stk)

\* prompt_for_payload(schema) up to its first input()
prompt_for_payload(schema) ==
    Run(<<Frame("prompt_for_payload", "", schema, "", 0)>>, 0)

\* Faulty variant of Resume: line 120 stores the value under the title
\* shown to the operator instead of the property name.
Resume_KeyIsTitle(g, v) ==
    CASE g.at = "call" /\ g.fn = "prompt_for_object" ->
           LET item == Get(g.schema, "properties", <<>>)[g.idx]
           IN  [g EXCEPT !.result = (Title(item.name, item.schema) :> v) @@ g.result,
                         !.idx = g.idx + 1, !.at = "loop"]
      [] g.at = "append" ->
           [g EXCEPT !.values = Append(g.values, v), !.at = "element"]
      [] OTHER -> [g EXCEPT !.at = "return", !.ret = v]

\* Faulty variant of Resume: line 86 puts the element first instead of last.
Resume_Prepends(g, v) ==
    CASE g.at = "call" /\ g.fn = "prompt_for_object" ->
           LET prop == Get(g.schema, "properties", <<>>)[g.idx].name
           IN  [g EXCEPT !.result = (prop :> v) @@ g.result,
                         !.idx = g.idx + 1, !.at = "loop"]
      [] g.at = "append" ->
           [g EXCEPT !.values = <<v>> \o g.values, !.at = "element"]
      [] OTHER -> [g EXCEPT !.at = "return", !.ret = v]

\* The innermost frame returns v to its caller g, which goes on: line 130 and
\* line 77 return it, line 120 stores it under the property, line 86 appends
\* it, line 88 returns it.
Resume(g, v) ==
    CASE g.at = "call" /\ g.fn = "prompt_for_object" ->
           LET prop == Get(g.schema, "properties", <<>>)[g.idx].name
           IN  [g EXCEPT !.result = (prop :> v) @@ g.result,
                         !.idx = g.idx + 1, !.at = "loop"]
      [] g.at = "append" ->
           [g EXCEPT !.values = Append(g.values, v), !.at = "element"]
      [] OTHER -> [g EXCEPT !.at = "return", !.ret = v]

\* the choice of lines 117-118: whether the optional property is filled
Affirmed(line) == lower(strip(line)) \in Affirmative

\* Faulty variant of Decline: the declined property is set to its default,
\* or to None when it has none.
Decline_FillsDefault(f) ==
    LET item == f.schema["properties"][f.idx]
    IN  [f EXCEPT !.result = (item.name :> Get(item.schema, "default", PyNone))
                                @@ f.result,
                  !.idx = f.idx + 1, !.at = "loop"]

\* line 119, `continue`: the property is left out and the loop goes on
Decline(f) == [f EXCEPT !.idx = f.idx + 1, !.at = "loop"]

\* What the builder does with a line read at each of its input() calls, and
\* when a function returns.  stk is the stack, pos the number of lines read,
\* the line included.

\* line 117: the answer to "fill the optional field?"
OnChoice(stk, line, pos) ==
    LET n == Len(stk)
        f == stk[n]
        item == f.schema["properties"][f.idx]
    IN  IF Affirmed(line)
        THEN Run(Append([stk EXCEPT ![n].at = "call"],
                        ValueFrame(Title(item.name, item.schema), item.schema, pos)),
                 pos)
        ELSE Run([stk EXCEPT ![n] = Decline(f)], pos)

\* line 83: one element of an array, or the empty line that ends it
OnElement(stk, line, pos) ==
    LET n == Len(stk)
        f == stk[n]
        raw == strip(line)
        item_schema == Get(f.schema, "items", EmptyMap)
    IN  IF raw = ""
        THEN Running([stk EXCEPT ![n].at = "return", ![n].ret = PyList(f.values)])
        ELSE Run(Append([stk EXCEPT ![n].at = "append"],
                        Frame("convert_primitive", "", item_schema, raw, pos)),
                 pos)

\* line 88: the text of a primitive value
OnValue(stk, line, pos) ==
    LET n == Len(stk)
    IN  Run(Append([stk EXCEPT ![n].at = "convert"],
                   Frame("convert_primitive", "", stk[n].schema, strip(line), pos)),
            pos)

\* line 97: the answer to "possible values (...), choose"
OnEnum(stk, line, pos) ==
    LET n == Len(stk)
        raw == strip(line)
    IN  Running([stk EXCEPT ![n].raw = raw, ![n].at = "return",
                            ![n].ret = PyStr(raw)])

\* lines 126-127 and 131-132: the request body typed as JSON
OnJson(stk, raw, pos) ==
    LET n == Len(stk)
        r == IF raw # "" THEN json_loads(raw) ELSE Returned(PyDict(EmptyMap))
    IN  IF r.ok
        THEN Running([stk EXCEPT ![n].raw = raw, ![n].at = "return", ![n].ret = r.v])
        ELSE Unwound(r.exc)

\* the innermost frame returns to its caller
OnReturn(stk, pos) ==
    LET n == Len(stk)
    IN  Run(Append(SubSeq(stk, 1, n - 2), Resume(stk[n - 1], stk[n].ret)), pos)

---------------------------------------------------------------------------
\* The payload builder as steps of the program

Top == stack[Len(stack)]
At(fn, at) == pc = "build" /\ stack # <<>> /\ Top.fn = fn /\ Top.at = at
Pos == Len(transcript)

\* the lines tried at the input() frame f stands at
Typed(f) ==
    Lines \cup (IF f.at = "json" THEN JsonLines ELSE {})
          \cup (IF Get(f.schema, "type", "None") = "number" THEN NumberLines ELSE {})

Read(line) ==
    /\ Len(transcript) < MaxLines
    /\ transcript' = Append(transcript, line)

\* the builder goes on as r says; an exception leaves prompt_for_payload,
\* run_command (the call is outside its try, line 175) and main
Continue(r) ==
    /\ stack' = r.stack
    /\ error' = r.exc
    /\ pc' = IF r.exc = "" THEN pc ELSE "crashed"
    /\ UNCHANGED <<client_id, api_key, commands, selected, payload, wire,
                   requests, builds, out>>

AnswerOptional ==
    /\ At("prompt_for_object", "choice")
    /\ \E line \in Typed(Top) : Read(line) /\ Continue(OnChoice(stack, line, Pos + 1))

EnterElement ==
    /\ At("prompt_for_value", "element")
    /\ \E line \in Typed(Top) : Read(line) /\ Continue(OnElement(stack, line, Pos + 1))

EnterValue ==
    /\ At("prompt_for_value", "value")
    /\ \E line \in Typed(Top) : Read(line) /\ Continue(OnValue(stack, line, Pos + 1))

AnswerEnum ==
    /\ At("convert_primitive", "reprompt")
    /\ \E line \in Typed(Top) : Read(line) /\ Continue(OnEnum(stack, line, Pos + 1))

EnterJson ==
    /\ At("prompt_for_payload", "json")
    /\ \E line \in Typed(Top) : Read(line) /\ Continue(OnJson(stack, line, Pos + 1))

\* a builder function returns to its caller; prompt_for_payload returns to
\* run_command, which prints the request (lines 176-179) and goes to send it
Return ==
    /\ pc = "build" /\ stack # <<>> /\ Top.at = "return"
    /\ IF Len(stack) = 1
       THEN /\ payload' = Top.ret
            /\ stack' = <<>>
            /\ pc' = "request"
            /\ out' = "request"
            /\ UNCHANGED <<client_id, api_key, commands, selected, transcript,
                           wire, requests, builds, error>>
       ELSE /\ Continue(OnReturn(stack, Pos))
            /\ UNCHANGED transcript

---------------------------------------------------------------------------
\* main(), choose_command(), verify_credentials() and run_command()

\* Faulty variant of RunCommand: meta.pop("schema") for meta.get("schema"),
\* which takes the schema out of the catalog.
RunCommand_PopsSchema(command) ==
    LET meta == commands[command]
        schema == Get(meta, "schema", PyNone)
        r == prompt_for_payload(schema)
    IN  /\ selected' = command
        /\ transcript' = <<>>
        /\ payload' = PyNone
        /\ stack' = r.stack
        /\ error' = r.exc
        /\ pc' = IF r.exc = "" THEN "build" ELSE "crashed"
        /\ out' = "fill_fields"
        /\ commands' = [commands EXCEPT
                          ![command] = [k \in DOMAIN meta \ {"schema"} |-> meta[k]]]

\* lines 173-175: run_command up to the first input() of its payload build
RunCommand(command) ==
    LET meta == commands[command]
        schema == Get(meta, "schema", PyNone)
        r == prompt_for_payload(schema)
    IN  /\ selected' = command
        /\ transcript' = <<>>
        /\ payload' = PyNone
        /\ stack' = r.stack
        /\ error' = r.exc
        /\ pc' = IF r.exc = "" THEN "build" ELSE "crashed"
        /\ out' = "fill_fields"
        /\ commands' = commands

\* line 213
EnterClientId ==
    /\ pc = "client_id"
    /\ \E line \in CredentialLines : client_id' = strip(line)
    /\ pc' = "api_key"
    /\ UNCHANGED <<api_key, commands, selected, stack, transcript, payload,
                   wire, requests, builds, out, error>>

\* lines 214-219
EnterApiKey ==
    /\ pc = "api_key"
    /\ \E line \in CredentialLines :
          /\ api_key' = strip(line)
          /\ IF client_id = "" \/ strip(line) = ""
             THEN out' = "credentials_required" /\ pc' = "exit1"
             ELSE out' = "checking" /\ pc' = "verify"
    /\ UNCHANGED <<client_id, commands, selected, stack, transcript, payload,
                   wire, requests, builds, error>>

\* lines 220-228: verify_credentials answers, then the catalog is loaded
VerifyCredentials ==
    /\ pc = "verify"
    /\ \E outcome \in {"200", "403", "exception"} :
          IF outcome # "200"
          THEN out' = "key_rejected" /\ pc' = "exit1"
          ELSE IF DOMAIN commands = {}
          THEN out' = "no_commands" /\ pc' = "exit1"
          ELSE out' = "key_confirmed" /\ pc' = "menu"
    /\ UNCHANGED <<client_id, api_key, commands, selected, stack, transcript,
                   payload, wire, requests, builds, error>>

\* lines 231-235 with choose_command: the menu is answered.  An empty line
\* leaves the loop, a bad number asks again, a good one runs the command.
ChooseCommand ==
    /\ pc = "menu"
    /\ \E line \in MenuLines :
          LET raw == strip(line)
              idx == int(raw)
              items == sorted(DOMAIN commands)
              count == Cardinality(DOMAIN commands)   \* len(items)
          IN  IF raw = ""
              THEN /\ out' = "bye" /\ pc' = "done"
                   /\ UNCHANGED <<commands, selected, stack, transcript, payload,
                                  builds, error>>
              ELSE IF ~idx.ok
              THEN /\ out' = "enter_number" /\ pc' = "menu"
                   /\ UNCHANGED <<commands, selected, stack, transcript, payload,
                                  builds, error>>
              ELSE IF ~(1 <= idx.v.v /\ idx.v.v <= count)
              THEN /\ out' = "wrong_number" /\ pc' = "menu"
                   /\ UNCHANGED <<commands, selected, stack, transcript, payload,
                                  builds, error>>
              ELSE /\ builds < MaxBuilds
                   /\ builds' = builds + 1
                   /\ RunCommand(items[idx.v.v])
    /\ UNCHANGED <<client_id, api_key, wire, requests>>

\* bool(payload)
Truth(v) ==
    CASE v.t = "dict" -> DOMAIN v.v # {}
      [] v.t = "list" -> v.v # <<>>
      [] v.t = "str" -> v.v # ""
      [] v.t = "int" -> v.v # 0
      [] v.t = "float" -> v.num # 0
      [] v.t = "bool" -> v.v
      [] OTHER -> FALSE

\* lines 180-191: run_command sends the request and waits for the answer
SendRequest ==
    /\ pc = "request"
    /\ wire' = [method |-> lower(Get(commands[selected], "method", "post")),
                url |-> BASE_URL \o selected,
                json |-> IF Truth(payload) THEN payload ELSE PyNone]
    /\ requests' = requests + 1
    /\ pc' = "waiting"
    /\ UNCHANGED <<client_id, api_key, commands, selected, stack, transcript,
                   payload, builds, out, error>>

\* Faulty variant of ReceiveResponse: after an exception the request is
\* sent again.
ReceiveResponse_Retries ==
    /\ pc = "waiting"
    /\ \E outcome \in {"json", "text", "exception"} :
          /\ out' = CASE outcome = "json" -> "response_json"
                      [] outcome = "text" -> "response_text"
                      [] OTHER -> "request_failed"
          /\ IF outcome = "exception"
             THEN /\ pc' = "request"
                  /\ UNCHANGED <<payload, selected, transcript>>
             ELSE /\ pc' = "menu"
                  /\ payload' = PyNone
                  /\ selected' = ""
                  /\ transcript' = <<>>
    /\ wire' = PyNone
    /\ UNCHANGED <<client_id, api_key, commands, stack, requests, builds, error>>

\* lines 192-198 and 230-231: the answer, or the exception requests.request
\* raised, is printed; run_command returns and main is at its menu again
ReceiveResponse ==
    /\ pc = "waiting"
    /\ \E outcome \in {"json", "text", "exception"} :
          out' = CASE outcome = "json" -> "response_json"
                   [] outcome = "text" -> "response_text"
                   [] OTHER -> "request_failed"
    /\ pc' = "menu"
    /\ wire' = PyNone
    /\ payload' = PyNone
    /\ selected' = ""
    /\ transcript' = <<>>
    /\ UNCHANGED <<client_id, api_key, commands, stack, requests, builds, error>>

---------------------------------------------------------------------------
\* The session

Init ==
    /\ pc = "client_id"
    /\ client_id = "" /\ api_key = ""
    /\ commands = COMMANDS
    /\ selected = ""
    /\ stack = <<>>
    /\ transcript = <<>>
    /\ payload = PyNone
    /\ wire = PyNone
    /\ requests = 0
    /\ builds = 0
    /\ out = "welcome"
    /\ error = ""

\* With COMMANDS every schema is an object and no enum leaf is read outside
\* an array, so lines 97, 126 and 131 are never reached: AnswerEnum and
\* EnterJson are no steps of a session.
Next ==
    \/ EnterClientId
    \/ EnterApiKey
    \/ VerifyCredentials
    \/ ChooseCommand
    \/ AnswerOptional
    \/ EnterElement
    \/ EnterValue
    \/ Return
    \/ SendRequest
    \/ ReceiveResponse

Spec == Init /\ [][Next]_vars

---------------------------------------------------------------------------
\* The payload builder on its own: prompt_for_payload called by run_command
\* for one command of a catalog whose schema is any of Schemas

Required(prop_schema) ==
    [type |-> "object", properties |-> <<Item("field", prop_schema)>>,
     required |-> <<"field">>]

EnumSchema == Required([type |-> "integer", enum |-> <<"10", "Y">>])
EnumDefaultSchema ==
    Required([type |-> "string", enum |-> <<"Y", "N">>, default |-> PyStr("N")])
NestedSchema ==
    [type |-> "object",
     properties |-> <<
        Item("filter",
             [type |-> "object", description |-> "Filter",
              properties |-> << Item("price", [type |-> "number"]),
                                Item("active", [type |-> "boolean"]) >>,
              required |-> <<"price">>]),
        Item("note", [description |-> "Note"]) >>,
     required |-> <<"filter">>]
ArrayOfObjectsSchema ==
    Required([type |-> "array",
              items |-> [type |-> "object",
                         properties |-> <<Item("a", [type |-> "string"])>>,
                         required |-> <<"a">>]])

Schemas ==
    {AnalyticsStocksSchema, SupplyOrderGetSchema, SupplyOrderListSchema,
     EnumSchema, EnumDefaultSchema, NestedSchema, ArrayOfObjectsSchema,
     StringArray, PyNone}

Meta(schema) ==
    IF IsNone(schema) THEN [method |-> "post", summary |-> "test"]
    ELSE [method |-> "post", summary |-> "test", schema |-> schema]

BuildInit ==
    \E schema \in Schemas :
        /\ pc = "build"
        /\ client_id = "id" /\ api_key = "id"
        /\ commands = ("op" :> Meta(schema))
        /\ selected = "op"
        /\ stack = prompt_for_payload(schema).stack
        /\ transcript = <<>>
        /\ payload = PyNone
        /\ wire = PyNone
        /\ requests = 0
        /\ builds = 1
        /\ out = "fill_fields"
        /\ error = ""

BuildNext ==
    \/ AnswerOptional
    \/ EnterElement
    \/ EnterValue
    \/ AnswerEnum
    \/ EnterJson
    \/ Return

BuildSpec == BuildInit /\ [][BuildNext]_vars

---------------------------------------------------------------------------
\* Properties of the payload builder (checked under BuildSpec)

PropertyNames(schema) ==
    {p.name : p \in Range(Get(schema, "properties", <<>>))}
RequiredNames(schema) == Range(Get(schema, "required", <<>>))
IsArrayFrame(f) ==
    f.fn = "prompt_for_value" /\ Get(f.schema, "type", "None") = "array"
IsEnumFrame(f) ==
    f.fn = "convert_primitive" /\ Len(Get(f.schema, "enum", <<>>)) > 0
HasDefault(schema) == ~IsNone(Get(schema, "default", PyNone))
\* the lines read since frame f was called
LinesOf(f) == SubSeq(transcript, f.start + 1, Len(transcript))
\* the text convert_primitive was called with: the line read just before, trimmed
Arg(f) == strip(transcript[f.start])
BuiltSchema == Get(commands["op"], "schema", PyNone)

\* C1: whenever prompt_for_object returns, the keys K of the mapping it returns
\* satisfy required <= K <= keys(properties) (given required <= keys(properties));
\* the mapping under construction never holds a key outside properties.
C1_KeysBetweenRequiredAndProperties ==
    \A i \in 1..Len(stack) :
        LET f == stack[i]
            names == PropertyNames(f.schema)
            required == RequiredNames(f.schema)
        IN  (f.fn = "prompt_for_object" /\ required \subseteq names) =>
               /\ DOMAIN f.result \subseteq names
               /\ f.at = "return" =>
                     /\ f.ret.t = "dict"
                     /\ required \subseteq DOMAIN f.ret.v
                     /\ DOMAIN f.ret.v \subseteq names

\* prompt_for_object returns a mapping with its required key and without an
\* optional key of its schema
C1_Witness ==
    \E i \in 1..Len(stack) :
        LET f == stack[i]
        IN  /\ f.fn = "prompt_for_object" /\ f.at = "return"
            /\ RequiredNames(f.schema) # {}
            /\ DOMAIN f.ret.v = RequiredNames(f.schema)
            /\ DOMAIN f.ret.v # PropertyNames(f.schema)

\* an optional property is declined: the frame moves past it, its mapping is
\* as it was, without the property, and only the answer has been read
C3_DeclineStep ==
    (/\ At("prompt_for_object", "choice")
     /\ transcript' # transcript
     /\ ~Affirmed(transcript'[Len(transcript')])) =>
        LET n == Len(stack)
            prop == Top.schema["properties"][Top.idx].name
        IN  /\ Len(transcript') = Len(transcript) + 1
            /\ Len(stack') >= n
            /\ stack'[n].fn = "prompt_for_object"
            /\ stack'[n].idx = Top.idx + 1
            /\ stack'[n].result = Top.result
            /\ ~Has(stack'[n].result, prop)

\* a mapping under construction changes only when the value prompted for its
\* current property is returned and stored (line 120)
C3_KeysSetOnlyByStore ==
    \A i \in 1..Len(stack) :
        (/\ stack[i].fn = "prompt_for_object"
         /\ stack[i].at # "return"
         /\ Len(stack') >= i) =>
            \/ stack'[i].result = stack[i].result
            \/ /\ stack[i].at = "call" /\ i = Len(stack) - 1 /\ Top.at = "return"
               /\ stack'[i].result =
                    (stack[i].schema["properties"][stack[i].idx].name :> Top.ret)
                       @@ stack[i].result

\* C3: when the answer to "fill the optional field?" is not affirmative, the
\* mapping gets no key for the property (no null, no default) and no value
\* prompt for it reads a line.
C3_DeclinedAbsent == [][C3_DeclineStep /\ C3_KeysSetOnlyByStore]_vars

\* limit (default 100) and offset declined, status accepted and typed "Y":
\* exactly {"status": "Y"} is returned
C3_Witness ==
    /\ BuiltSchema = SupplyOrderListSchema
    /\ stack # <<>> /\ Top.fn = "prompt_for_object" /\ Top.at = "return"
    /\ Top.ret = PyDict("status" :> PyStr("Y"))

\* C4: an array build has one element per non-empty (trimmed) line read before
\* the first empty line, the N-th line giving the N-th element; the first empty
\* line ends it and is the last line it reads; nothing is dropped or merged.
C4_ArrayFollowsLines ==
    \A i \in 1..Len(stack) :
        LET f == stack[i]
            lines == LinesOf(f)
            m == Len(f.values)
            item_schema == Get(f.schema, "items", EmptyMap)
            Element(k) == convert_primitive(strip(lines[k]), item_schema)
        IN  IsArrayFrame(f) =>
               /\ m <= Len(lines)
               /\ \A k \in 1..m :
                     /\ strip(lines[k]) # ""
                     /\ Element(k).ok
                     /\ f.values[k] = Element(k).v
               /\ f.at = "element" => Len(lines) = m
               /\ f.at = "append" => Len(lines) = m + 1 /\ strip(lines[m + 1]) # ""
               /\ f.at = "return" =>
                     /\ Len(lines) = m + 1
                     /\ strip(lines[m + 1]) = ""
                     /\ f.ret = PyList(f.values)

\* integer items, the lines "10", " 20" and an empty one: [10, 20] is returned
C4_Witness ==
    \E i \in 1..Len(stack) :
        /\ IsArrayFrame(stack[i]) /\ stack[i].at = "return"
        /\ stack[i].ret = PyList(<<PyInt(10), PyInt(20)>>)

\* whether value v has the structure schema declares
RECURSIVE Conforms(_, _)
Conforms(v, schema) ==
    LET schema_type == Get(schema, "type", "None")
        properties == Get(schema, "properties", <<>>)
    IN  CASE schema_type = "object" ->
               /\ v.t = "dict"
               /\ \A p \in Range(properties) :
                     Has(v.v, p.name) => Conforms(v.v[p.name], p.schema)
          [] schema_type = "array" ->
               /\ v.t = "list"
               /\ \A k \in 1..Len(v.v) :
                     Conforms(v.v[k], Get(schema, "items", EmptyMap))
          [] Len(Get(schema, "enum", <<>>)) > 0 -> v.t = "str"
          [] schema_type = "integer" -> v.t = "int"
          [] schema_type = "number" -> v.t = "float"
          [] schema_type = "boolean" -> v.t = "bool"
          [] OTHER -> v.t = "str"

\* C5: every value prompt_for_value returns has the structure of its schema
\* node at every depth: object -> mapping, array -> sequence of values of
\* `items` (mappings for object items), primitive -> scalar of the declared type.
C5_ValuesConformToSchema ==
    \A i \in 1..Len(stack) :
        (stack[i].fn = "prompt_for_value" /\ stack[i].at = "return") =>
            Conforms(stack[i].ret, stack[i].schema)

\* C6 as claimed: for an enum leaf, empty input never yields the default; the
\* operator is asked again exactly once and that answer is returned.
C6_EnumNeverDefaults ==
    \A i \in 1..Len(stack) :
        LET f == stack[i]
        IN  (IsEnumFrame(f) /\ f.at = "return" /\ Arg(f) = "") =>
               /\ Len(LinesOf(f)) = 1
               /\ f.ret = PyStr(strip(LinesOf(f)[1]))

\* C6 amended: the default comes first.  For an enum leaf and empty input, a
\* declared (non-null) default is returned without asking again; only without
\* a default is the operator asked again, once, and the trimmed answer returned.
C6_DefaultBeforeEnum ==
    \A i \in 1..Len(stack) :
        LET f == stack[i]
            asked == Len(LinesOf(f))
        IN  (IsEnumFrame(f) /\ Arg(f) = "") =>
               IF HasDefault(f.schema)
               THEN f.at = "return" /\ asked = 0 /\ f.ret = f.schema["default"]
               ELSE \/ f.at = "reprompt" /\ asked = 0
                    \/ /\ f.at = "return" /\ asked = 1
                       /\ f.ret = PyStr(strip(LinesOf(f)[1]))

\* empty input for an enum leaf with a default: the default is returned
C6_Witness ==
    \E i \in 1..Len(stack) :
        LET f == stack[i]
        IN  /\ IsEnumFrame(f) /\ f.at = "return" /\ Arg(f) = ""
            /\ HasDefault(f.schema) /\ f.ret = f.schema["default"]

\* C7 as claimed: for an enum leaf the string typed is returned as it is,
\* whatever the enum and the type; after an empty first input the answer to
\* the one re-prompt is returned.
C7_EnumReturnsTyped ==
    \A i \in 1..Len(stack) :
        LET f == stack[i]
            asked == Len(LinesOf(f))
        IN  (IsEnumFrame(f) /\ f.at = "return") =>
               IF Arg(f) # ""
               THEN asked = 0 /\ f.ret = PyStr(Arg(f))
               ELSE asked = 1 /\ f.ret = PyStr(strip(LinesOf(f)[1]))

\* C7 amended: a non-empty (trimmed) input is returned as it is, in any case,
\* in or out of the enum, whatever the type; after an empty input the default
\* is returned if one is declared, and otherwise the trimmed answer to the one
\* re-prompt, empty or not.
C7_EnumReturnsTypedOrDefault ==
    \A i \in 1..Len(stack) :
        LET f == stack[i]
            asked == Len(LinesOf(f))
        IN  (IsEnumFrame(f) /\ f.at = "return") =>
               IF Arg(f) # ""
               THEN asked = 0 /\ f.ret = PyStr(Arg(f))
               ELSE IF HasDefault(f.schema)
               THEN asked = 0 /\ f.ret = f.schema["default"]
               ELSE asked = 1 /\ f.ret = PyStr(strip(LinesOf(f)[1]))

\* an enum leaf of type integer: empty input, then an empty answer to the
\* re-prompt, which is returned
C7_Witness ==
    \E i \in 1..Len(stack) :
        LET f == stack[i]
        IN  /\ IsEnumFrame(f) /\ f.at = "return" /\ Arg(f) = ""
            /\ ~HasDefault(f.schema) /\ Len(LinesOf(f)) = 1
            /\ f.ret = PyStr("")

\* C8: prompt_for_payload returns a mapping, on the raw-JSON path too.
C8_PayloadIsMapping ==
    \A i \in 1..Len(stack) :
        (stack[i].fn = "prompt_for_payload" /\ stack[i].at = "return") =>
            stack[i].ret.t = "dict"

---------------------------------------------------------------------------
\* Properties of the session (checked under Spec)

\* C2: whatever the operator types, the session never ends in an exception.
C2_NeverCrashes == pc # "crashed"


\* The builder run afresh: prompt_for_payload(schema) fed the given lines,
\* every return taken.  r is [stack, exc], k the next line.
RECURSIVE Settle(_, _)
Settle(r, pos) ==
    IF r.exc = "" /\ Len(r.stack) >= 2 /\ r.stack[Len(r.stack)].at = "return"
    THEN Settle(OnReturn(r.stack, pos), pos)
    ELSE r

RECURSIVE Feed(_, _, _)
Feed(r, lines, k) ==
    LET s == Settle(r, k - 1)
        at == s.stack[Len(s.stack)].at
    IN  IF k > Len(lines) \/ s.exc # "" \/ at = "return" THEN s
        ELSE Feed(CASE at = "choice" -> OnChoice(s.stack, lines[k], k)
                    [] at = "element" -> OnElement(s.stack, lines[k], k)
                    [] at = "value" -> OnValue(s.stack, lines[k], k)
                    [] at = "reprompt" -> OnEnum(s.stack, lines[k], k)
                    [] OTHER -> OnJson(s.stack, lines[k], k),
                  lines, k + 1)

Replay(schema, lines) == Feed(prompt_for_payload(schema), lines, 1)

C10_OneRequest ==
    /\ requests = builds - (IF pc \in {"build", "request", "crashed"} THEN 1 ELSE 0)
    /\ pc = "waiting" =>
          /\ stack = <<>>
          /\ ~IsNone(wire)
          /\ wire.json = (IF Truth(payload) THEN payload ELSE PyNone)
    /\ pc # "waiting" => IsNone(wire)

\* the request is sent once; whatever its outcome, nothing is sent again and
\* the next prompt is the menu
C10_NoRetry ==
    /\ pc = "request" => pc' = "waiting" /\ requests' = requests + 1
    /\ pc = "waiting" =>
          /\ pc' = "menu" /\ requests' = requests
          /\ out' \in {"response_json", "response_text", "request_failed"}

\* C10: each command sends at most one request: exactly one when the payload
\* build returns, none when a conversion or the JSON parse raises; a transport
\* failure is printed, not retried, and the menu comes next.
C10_AtMostOneRequest == []C10_OneRequest /\ [][C10_NoRetry]_vars

\* a transport failure was printed and the session is at the menu again
C10_Witness ==
    pc = "menu" /\ out = "request_failed" /\ requests = 1 /\ builds = 1

===========================================================================
